---- MODULE Spec2Model ----
(***************************************************************************)
(* Amazon price tracker: the collector (amazon_price_tracker.py), the      *)
(* launcher (run_scraper_and_dashboard.py) and the Streamlit presenter     *)
(* (streamlit_app.py).                                                     *)
(*                                                                         *)
(* Text is a sequence of one-character strings, so that replace, strip     *)
(* and the digit filter act character by character as the Python code      *)
(* does.  Wall-clock time is a whole number of seconds; the collector and  *)
(* the presenter are two processes that share the clock and the working    *)
(* directory.                                                              *)
(***************************************************************************)
EXTENDS Integers, Sequences, FiniteSets, TLC

VARIABLES
    now,            \* wall clock, seconds
    PRODUCT_URLS,   \* the configured list of product URLs
    cpc,            \* collector position: "idle" | "loop" | "sleep" | "wait" | "delay" |
                    \* "writing" | "crashed"
    i,              \* index of the for-loop over PRODUCT_URLS
    results,        \* the collector's results list
    runs,           \* collector runs started so far
    files,          \* working directory: filename -> [ctime, content]
    writing,        \* the file to_csv has open, NoName when none
    wake,           \* the clock at which the collector's sleep or wait ends
    cpage,          \* what the browser does with the page of the current iteration
    item,           \* the record get_amazon_data is filling in
    session_state,  \* st.session_state of the dashboard session
    cache,          \* st.cache_data entry of load_data
    ppc,            \* presenter position: "closed" | "rerun" | "shown"
    view,           \* what the session displays
    seen,           \* the directory as it was when load_data was last called
    lag,            \* seconds the clock has advanced one at a time
    xpc,            \* extraction check: "input" | "scraped" | "raised"
    xurl,           \* extraction check: the URL given to get_amazon_data
    xpage,          \* extraction check: what the browser does with the page
    data,           \* extraction check: the record get_amazon_data returned
    rpc,            \* row check: "input" | "cleaned"
    row             \* one dashboard row: Price, MRP and the derived columns

collectorVars == <<PRODUCT_URLS, cpc, i, results, runs, files, writing, wake, cpage, item>>
presenterVars == <<session_state, cache, ppc, view, seen, lag>>
extractVars == <<xpc, xurl, xpage, data>>
rowVars == <<rpc, row>>
vars == <<now, PRODUCT_URLS, cpc, i, results, runs, files, writing, wake, cpage, item,
          session_state, cache, ppc, view, seen, lag, xpc, xurl, xpage, data, rpc, row>>

----------------------------------------------------------------------------
(* Bounds of the model *)

MaxLen == 3      \* longest generated price text
MaxUrls == 2     \* longest configured URL list of a single collector run
MaxSessionUrls == 1  \* longest configured URL list of a collector that runs again
MaxRuns == 2     \* collector runs per behaviour
MaxSpread == 0   \* beside a dashboard session, sleeps exceed their minimum by at most this
MaxLag == 1      \* seconds the clock advances one at a time
MaxFiles == 2    \* matching files of a directory given to a dashboard session
MaxTime == 130   \* last second of the clock while the collector runs
Horizon == 420   \* last second of the clock of a dashboard session

----------------------------------------------------------------------------
(* Text helpers *)

AsciiDigits == {"0", "1", "2", "3", "4", "5", "6", "7", "8", "9"}

\* decimal digits of other scripts (TAMIL THREE, BENGALI ZERO): float()
\* reads them as 3 and 0
OtherDecimals == {"௩", "০"}

\* characters that are digits without being decimal: float() rejects them
Superscripts == {"²", "³"}

\* the characters c of the model's alphabet with c.isdigit()
Digits == AsciiDigits \cup OtherDecimals \cup Superscripts

DigitVal(c) ==
    CASE c = "0" -> 0 [] c = "1" -> 1 [] c = "2" -> 2 [] c = "3" -> 3
      [] c = "4" -> 4 [] c = "5" -> 5 [] c = "6" -> 6 [] c = "7" -> 7
      [] c = "8" -> 8 [] c = "9" -> 9 [] c = "௩" -> 3 [] c = "০" -> 0

DigitChar(k) == <<"0", "1", "2", "3", "4", "5", "6", "7", "8", "9">>[k + 1]

\* the characters c of the model's alphabet with c.isspace(): space, tab, line
\* feed, carriage return, form feed, no-break space
Whitespace == {" ", "\t", "\n", "\r", "\f", " "}

\* str.replace(old, "") for a one-character old
RECURSIVE Remove(_, _)
Remove(s, c) ==
    IF s = <<>> THEN <<>>
    ELSE IF Head(s) = c THEN Remove(Tail(s), c)
    ELSE <<Head(s)>> \o Remove(Tail(s), c)

\* ''.join(ch for ch in s if keep(ch)), keep given as a set of characters
RECURSIVE Keep(_, _)
Keep(s, K) ==
    IF s = <<>> THEN <<>>
    ELSE IF Head(s) \in K THEN <<Head(s)>> \o Keep(Tail(s), K)
    ELSE Keep(Tail(s), K)

RECURSIVE LStrip(_)
LStrip(s) == IF s # <<>> /\ Head(s) \in Whitespace THEN LStrip(Tail(s)) ELSE s

RECURSIVE RStrip(_)
RStrip(s) ==
    IF s # <<>> /\ s[Len(s)] \in Whitespace THEN RStrip(SubSeq(s, 1, Len(s) - 1)) ELSE s

\* str.strip()
Strip(s) == RStrip(LStrip(s))

RECURSIVE Pow10(_)
Pow10(n) == IF n = 0 THEN 1 ELSE 10 * Pow10(n - 1)

RECURSIVE DigitsToInt(_)
DigitsToInt(s) ==
    IF s = <<>> THEN 0 ELSE 10 * DigitsToInt(SubSeq(s, 1, Len(s) - 1)) + DigitVal(s[Len(s)])

\* str(n) for an int n >= 0
RECURSIVE IntText(_)
IntText(n) ==
    IF n < 10 THEN <<DigitChar(n)>> ELSE IntText(n \div 10) \o <<DigitChar(n % 10)>>

\* the e digits after the decimal point of f / 10^e
RECURSIVE FracText(_, _)
FracText(f, e) ==
    IF e = 0 THEN <<>> ELSE FracText(f \div 10, e - 1) \o <<DigitChar(f % 10)>>

RECURSIVE SeqsUpTo(_, _)
SeqsUpTo(S, n) ==
    IF n = 0 THEN {<<>>}
    ELSE LET shorter == SeqsUpTo(S, n - 1)
         IN  shorter \cup {Append(s, c) : s \in {t \in shorter : Len(t) = n - 1}, c \in S}

----------------------------------------------------------------------------
(* Cells and numbers: a float is mant / 10^exp; None and NaN are their own *)
(* records; a cell of a table read by read_csv is NaN, a text, an int or a *)
(* float                                                                   *)

None == [kind |-> "None"]
NaN == [kind |-> "NaN"]
Num(m, e) == [kind |-> "num", mant |-> m, exp |-> e]
PyInt(n) == [kind |-> "int", v |-> n]
Str(s) == [kind |-> "str", s |-> s]

IsNum(v) == v.kind = "num"
NumEq(a, b) == a.mant * Pow10(b.exp) = b.mant * Pow10(a.exp)
NumLt(a, b) == a.mant * Pow10(b.exp) < b.mant * Pow10(a.exp)
Zero == Num(0, 0)

Abs(n) == IF n < 0 THEN -n ELSE n

\* the digits of n >= 1 without its trailing zeros
RECURSIVE Significand(_)
Significand(n) == IF n % 10 = 0 THEN Significand(n \div 10) ELSE n

\* repr of a float m / 10^e in exponent notation, 0 < m / 10^e < 1e-04: the
\* significant digits with a point after the first, and the exponent in two
\* digits at least
ExpText(m, e) ==
    LET ds == IntText(Significand(m))
        x == e - Len(IntText(m)) + 1
    IN  <<Head(ds)>> \o (IF Len(ds) > 1 THEN <<".">> \o Tail(ds) ELSE <<>>)
            \o <<"e", "-">> \o (IF x < 10 THEN <<"0">> ELSE <<>>) \o IntText(x)

\* repr of a float m / 10^e in positional notation: the shortest decimal, one
\* digit after the point at least
RECURSIVE FixedText(_, _)
FixedText(m, e) ==
    IF e = 0 THEN IntText(m) \o <<".", "0">>
    ELSE IF e > 1 /\ m % 10 = 0 THEN FixedText(m \div 10, e - 1)
    ELSE IntText(m \div Pow10(e)) \o <<".">> \o FracText(m % Pow10(e), e)

\* repr of a float m / 10^e, m >= 0: exponent notation below 1e-04 (and from
\* 1e+16 on, which is beyond the numbers of this model)
FloatText(m, e) ==
    IF m > 0 /\ e > 4 /\ m < Pow10(e - 4) THEN ExpText(m, e) ELSE FixedText(m, e)

\* line 32: str(x)
PyStr(x) ==
    CASE x.kind = "str" -> x.s
      [] x.kind = "int" -> (IF x.v < 0 THEN <<"-">> ELSE <<>>) \o IntText(Abs(x.v))
      [] x.kind = "num" ->
            (IF x.mant < 0 THEN <<"-">> ELSE <<>>) \o FloatText(Abs(x.mant), x.exp)

\* line 30: not x
Falsy(x) ==
    CASE x.kind = "str" -> x.s = <<>>
      [] x.kind = "int" -> x.v = 0
      [] x.kind = "num" -> x.mant = 0

\* float(digits) for a text of digit characters and decimal points
PyFloat(digits) ==
    LET dots == Len(Keep(digits, {"."}))
        ds == Keep(digits, AsciiDigits \cup OtherDecimals)
        p == CHOOSE k \in 1..Len(digits) : digits[k] = "."
    IN  IF dots > 1 \/ ds = <<>> \/ Keep(digits, Superscripts) # <<>>
        THEN [kind |-> "ValueError"]
        ELSE IF dots = 0 THEN Num(DigitsToInt(ds), 0)
        ELSE Num(DigitsToInt(ds), Len(digits) - p)

clean_price_nozero(x) ==
    IF x.kind = "NaN" \/ Falsy(x) THEN None
    ELSE
        LET s == Remove(Remove(Remove(PyStr(x), "₹"), ","), " ")
            digits == Keep(s, Digits \cup {"."})
            f == IF digits # <<>> THEN PyFloat(digits) ELSE Num(0, 0)
        IN  IF f.kind = "ValueError" THEN None ELSE f

\* streamlit_app.py clean_price
clean_price(x) ==
    IF x.kind = "NaN" \/ Falsy(x) THEN None
    ELSE
        LET s == Remove(Remove(Remove(PyStr(x), "₹"), ","), " ")
            digits == Keep(s, Digits \cup {"."})
            f == IF digits # <<>> THEN PyFloat(digits) ELSE None
        IN  IF f.kind = "ValueError" THEN None ELSE f

----------------------------------------------------------------------------
(* Discount_% of one dashboard row (streamlit_app.py lines 60-80) *)

Max(a, b) == IF a >= b THEN a ELSE b

\* both operands as integers over the common denominator 10^Max(exp)
Scaled(v, w) == v.mant * Pow10(Max(v.exp, w.exp) - v.exp)

\* n * 10^k / d for d > 0, as quotient q (rounded down) and remainder r, one
\* decimal digit at a time
RECURSIVE LongDiv(_, _, _)
LongDiv(n, d, k) ==
    IF k = 0 THEN [q |-> n \div d, r |-> n % d]
    ELSE LET p == LongDiv(n, d, k - 1)
         IN  [q |-> 10 * p.q + (10 * p.r) \div d, r |-> (10 * p.r) % d]

\* Series.round(1) of q + r/d tenths.  The quotient is a binary double: away
\* from a decimal half the nearest tenth is certain; at a decimal half the
\* double lies on the half (numpy then rounds to the even neighbour) or a few
\* ulps beside it (99.85 is held as 99.85000000000001 and rounds to 99.9), so
\* either neighbour can come out and tie_up says which.
RoundTenths(p, d, tie_up) ==
    IF 2 * p.r < d THEN p.q
    ELSE IF 2 * p.r > d THEN p.q + 1
    ELSE IF tie_up THEN p.q + 1 ELSE p.q

mask_no_current_check(cp, mp) ==
    /\ IsNum(cp)
    /\ IsNum(mp)
    /\ NumLt(Zero, mp)

\* the boolean mask of lines 68-73
mask(cp, mp) ==
    /\ IsNum(cp)
    /\ IsNum(mp)
    /\ NumLt(Zero, mp)
    /\ NumLt(Zero, cp)

\* lines 65 and 76-80: None, or ((MRP - Current) / MRP * 100).round(1)
Discount(cp, mp, tie_up) ==
    IF mask(cp, mp)
    THEN LET M == Scaled(mp, cp)
             C == Scaled(cp, mp)
         IN  Num(RoundTenths(LongDiv(M - C, M, 3), M, tie_up), 1)
    ELSE None

\* lines 61-80 applied to one row of the table
CleanRow(r, tie_up) ==
    LET cp == clean_price(r.Price)
        mp == clean_price(r.MRP)
    IN  [Price |-> r.Price, MRP |-> r.MRP, Current_Price |-> cp, MRP_Price |-> mp,
         Discount |-> Discount(cp, mp, tie_up)]

----------------------------------------------------------------------------
(* Cell values a row may hold *)

NA == <<"N", "/", "A">>
TextNone == <<"N", "o", "n", "e">>
OutOfStock == <<"O", "u", "t", " ", "o", "f", " ", "s", "t", "o", "c", "k">>
Unavailable == <<"C", "u", "r", "r", "e", "n", "t", "l", "y", " ",
                 "u", "n", "a", "v", "a", "i", "l", "a", "b", "l", "e">>
Sentinels == {NA, TextNone, <<>>, OutOfStock, Unavailable}

PriceChars == {"₹", "0", "1", "5", ",", ".", " ", "a", "²", "௩"}

\* cells of a column that read_csv parsed as numbers
NumericCells ==
    {PyInt(0), PyInt(5), PyInt(-5), Num(0, 1), Num(15, 1), Num(50, 1), Num(1, 5), Num(12, 6)}

PriceCells ==
    {NaN} \cup {Str(s) : s \in SeqsUpTo(PriceChars, MaxLen)}
          \cup {Str(s) : s \in Sentinels}
          \cup {Str(<<"₹", "1", ",", "2", "3", "4", ".", "5", "0">>),
                Str(<<"₹", "1", ",", "2", "3", ",", "4", "5", "6", ".", "0", "0">>)}
          \cup NumericCells

MrpCells ==
    {NaN, Str(NA), Str(<<"0">>), Str(<<"₹", "1", "6">>), Str(<<"₹", "1", ".", "5">>),
     Str(<<"₹", "1", ",", "0", "0", "0", ".", "0", "0">>), Str(<<"5", "0", "0">>),
     PyInt(0), Num(160, 1)}

InitRowVars ==
    /\ rpc = "input"
    /\ row \in [Price : PriceCells, MRP : MrpCells, Current_Price : {None},
                MRP_Price : {None}, Discount : {None}]

RowOff ==
    /\ rpc = "off"
    /\ row = [Price |-> NaN, MRP |-> NaN, Current_Price |-> None,
              MRP_Price |-> None, Discount |-> None]

----------------------------------------------------------------------------
(* The collector's field extractor (amazon_price_tracker.py lines 53-117) *)

\* a page element: a lookup yields its text (El), raises NoSuchElementException
\* or, for the title wait, TimeoutException (Missing), or fails with another
\* exception, in the lookup or in reading the text (Failing)
Missing == [found |-> FALSE, text |-> <<>>, exc |-> "missing"]
Failing == [found |-> FALSE, text |-> <<>>, exc |-> "error"]
El(s) == [found |-> TRUE, text |-> s, exc |-> "none"]

Blocked ==
    <<"B", "l", "o", "c", "k", "e", "d", " ", "o", "r", " ", "T", "i", "m", "e", "o",
      "u", "t", " ", "-", " ", "M", "a", "n", "u", "a", "l", " ", "c", "h", "e", "c",
      "k", " ", "n", "e", "e", "d", "e", "d">>
InStock == <<"I", "n", " ", "S", "t", "o", "c", "k">>

\* lines 58-68: the record before any lookup
InitialData(url, t) ==
    [URL |-> url, Title |-> NA, Price |-> NA, MRP |-> NA, Discount |-> NA,
     Rating |-> NA, Reviews |-> NA, Availability |-> NA, Timestamp |-> t]

\* lines 76-84: the Price block; d is the record so far
PriceBlock(d, page) ==
    IF page.whole.found /\ page.fraction.found
    THEN [d EXCEPT !.Price = <<"₹">> \o Remove(page.whole.text, ".") \o page.fraction.text]
    ELSE IF page.apex.found
    THEN [d EXCEPT !.Price = page.apex.text]
    ELSE d

\* lines 87-91
MrpBlock(d, page) ==
    IF page.mrp.found THEN [d EXCEPT !.MRP = page.mrp.text] ELSE d

\* lines 94-98
RatingBlock(d, page) ==
    IF page.rating.found THEN [d EXCEPT !.Rating = page.rating.text] ELSE d

\* lines 100-104
ReviewsBlock(d, page) ==
    IF page.reviews.found THEN [d EXCEPT !.Reviews = page.reviews.text] ELSE d

\* lines 107-111
AvailabilityBlock(d, page) ==
    IF page.avail.found
    THEN [d EXCEPT !.Availability = Strip(page.avail.text)]
    ELSE [d EXCEPT !.Availability = InStock]

\* the call ends in an exception instead of a record
Raised == [raised |-> TRUE]

\* driver.get at line 55 is outside the try, and the handler at line 113 takes
\* TimeoutException only
Raises(page) == page.get # "ok" \/ page.title.exc = "error"

\* get_amazon_data(url); page is what the browser does, t the clock at line 67
get_amazon_data(url, page, t) ==
    LET d0 == InitialData(url, t)
        d1 == [d0 EXCEPT !.Title = Strip(page.title.text)]
    IN  IF Raises(page) THEN Raised
        ELSE IF ~page.title.found
        THEN [d0 EXCEPT !.Title = Blocked]
        ELSE AvailabilityBlock(
                 ReviewsBlock(RatingBlock(MrpBlock(PriceBlock(d1, page), page), page), page),
                 page)

\* random_delay(4, 8) at line 56 and random_delay(5, 10) at line 124, in
\* whole seconds
LoadDelayMin == 4
LoadDelayMax == 8
NextDelayMin == 5
NextDelayMax == 10
LoadDelays == LoadDelayMin..LoadDelayMax
NextDelays == NextDelayMin..NextDelayMax

\* line 48: WebDriverWait(driver, 20)
TitleWait == 20

\* seconds a call of get_amazon_data takes when the sleep at line 56 lasts d:
\* a title that never appears is waited for until the timeout
Elapsed(page, d) ==
    IF page.get # "ok" THEN 0
    ELSE IF page.title.exc = "missing" THEN d + TitleWait
    ELSE d

\* PRODUCT_URLS as at lines 22-26
AllUrls ==
    <<"https://www.amazon.in/OnePlus-Snapdragon-Flagship-Powered-Phantom/dp/B0FCML66W9",
      "https://www.amazon.in/iPhone-16-Plus-128-GB/dp/B0DGJ6JS1D">>

\* line 25, "Add more...": what a longer configuration appends
MoreUrls == <<"https://www.amazon.in/dp/B0CHX1W1XY", "https://www.amazon.in/dp/B0BDHWDR12">>

URLS == {AllUrls[k] : k \in 1..Len(AllUrls)}

GetOutcomes == {"ok", "TimeoutException", "WebDriverException"}
TitleEls == {Missing, Failing, El(<<" ", "P", "h", "o", "n", "e", " ">>),
             El(<<"\t", "P", "h", "o", "n", "e", "\n">>)}
WholeEls == {Missing, El(<<"1", ",", "2", "9", "9", ".">>), El(<<"4", "9", "9">>)}
FractionEls == {Missing, El(<<"0", "0">>), El(<<"5", "0">>)}
ApexEls == {Missing, El(<<>>), El(<<"₹", "1", ",", "2", "9", "9", ".", "0", "0">>)}
MrpEls == {Missing, Failing, El(<<"₹", "1", ",", "4", "9", "9", ".", "0", "0">>)}
RatingEls == {Missing, El(<<"4", ".", "3">>)}
ReviewsEls == {Missing, El(<<"1", "2">>)}
AvailEls == {Missing, El(<<" ", "O", "n", "l", "y", " ", "2", " ", "l", "e", "f", "t", " ">>),
             El(<<"\n", " ", "I", "n", " ", "s", "t", "o", "c", "k", " ", "\n">>)}

Pages ==
    [get : GetOutcomes, title : TitleEls, whole : WholeEls, fraction : FractionEls,
     apex : ApexEls, mrp : MrpEls, rating : RatingEls, reviews : ReviewsEls,
     avail : AvailEls]

BlankPage ==
    [get |-> "ok", title |-> Missing, whole |-> Missing, fraction |-> Missing,
     apex |-> Missing, mrp |-> Missing, rating |-> Missing, reviews |-> Missing,
     avail |-> Missing]

InitExtractVars ==
    /\ xpc = "input"
    /\ xurl \in URLS
    /\ xpage \in Pages
    /\ data = InitialData(xurl, 0)

ExtractOff ==
    /\ xpc = "off"
    /\ xurl = ""
    /\ xpage = BlankPage
    /\ data = InitialData("", 0)

----------------------------------------------------------------------------
(* The collector run (amazon_price_tracker.py lines 119-131) *)

SecondsPerMinute == 60

\* strftime('%Y%m%d_%H%M') of the clock: the minute the clock is in
FileName(t) == t \div SecondsPerMinute

NoName == -1

CollectDropBlocked(res, rec) == IF rec.Title = Blocked THEN res ELSE Append(res, rec)

\* line 123: results.append(item)
Collect(res, rec) == Append(res, rec)

\* line 130, to_csv(name): opening creates or truncates the file, closing
\* leaves the table in it
WriteFile(fs, name, content, t) ==
    [n \in DOMAIN fs \cup {name} |->
        IF n = name THEN [ctime |-> t, content |-> content] ELSE fs[n]]

NoFiles == [n \in {} |-> [ctime |-> 0, content |-> <<>>]]

\* what the loop's browser may do with a page
FullPage ==
    [get |-> "ok", title |-> El(<<" ", "P", "h", "o", "n", "e", " ">>),
     whole |-> El(<<"1", ",", "2", "9", "9", ".">>), fraction |-> El(<<"0", "0">>),
     apex |-> Missing, mrp |-> El(<<"₹", "1", ",", "4", "9", "9", ".", "0", "0">>),
     rating |-> El(<<"4", ".", "3">>), reviews |-> El(<<"1", "2">>),
     avail |-> Missing]
DeadPage == [BlankPage EXCEPT !.get = "WebDriverException"]
BrokenPage == [BlankPage EXCEPT !.title = Failing]
PartPage ==
    [get |-> "ok", title |-> El(<<"\t", "P", "h", "o", "n", "e", "\n">>),
     whole |-> El(<<"4", "9", "9">>), fraction |-> Missing,
     apex |-> El(<<"₹", "1", ",", "2", "9", "9", ".", "0", "0">>), mrp |-> Failing,
     rating |-> Missing, reviews |-> El(<<"1", "2">>),
     avail |-> El(<<"\n", " ", "I", "n", " ", "s", "t", "o", "c", "k", " ", "\n">>)]
LoopPages == {BlankPage, FullPage, PartPage, DeadPage, BrokenPage}

\* no call of get_amazon_data in progress
NoItem == InitialData("", 0)

\* the configured lists of up to n URLs: the first k URLs, k = 0..n
Configurations(n) == {SubSeq(AllUrls \o MoreUrls, 1, k) : k \in 0..n}

\* the delays of S that exceed the shortest by at most n
Shortest(S, n) == {d \in S : \A e \in S : d <= e + n}

InitCollectorVars(n) ==
    /\ PRODUCT_URLS \in Configurations(n)
    /\ cpc = "idle"
    /\ i = 1
    /\ results = <<>>
    /\ runs = 0
    /\ files = NoFiles
    /\ writing = NoName
    /\ wake = 0
    /\ cpage = BlankPage
    /\ item = NoItem

CollectorOff ==
    /\ PRODUCT_URLS = <<>>
    /\ cpc = "off"
    /\ i = 1
    /\ results = <<>>
    /\ runs = 0
    /\ files = NoFiles
    /\ writing = NoName
    /\ wake = 0
    /\ cpage = BlankPage
    /\ item = NoItem

----------------------------------------------------------------------------
(* The presenter script (streamlit_app.py lines 12-58) *)

refresh_interval == 300
cache_ttl == 360

NoSession == [k \in {} |-> 0]
NoCache == [set |-> FALSE, at |-> 0,
            value |-> [ok |-> FALSE, rows |-> <<>>, filename |-> <<>>, msg |-> "none"]]

LastNamedFile(fs) == {f \in DOMAIN fs : \A g \in DOMAIN fs : g <= f}

\* line 47: max(files, key=os.path.getctime), the files it can return: among
\* files of equal greatest ctime max keeps the one os.listdir (line 43) yields
\* first, and the order of os.listdir is arbitrary
LatestFile(fs) ==
    {f \in DOMAIN fs : \A g \in DOMAIN fs : fs[g].ctime <= fs[f].ctime}

\* line 49: pd.read_csv raises on a file with no columns: one written from an
\* empty list, or one that to_csv has opened and not yet closed
Readable(content) == content # <<>>

\* lines 48-54: the result of load_data once latest is selected
LoadFile(fs, latest) ==
    IF Readable(fs[latest].content)
    THEN [ok |-> TRUE, rows |-> fs[latest].content, filename |-> <<latest>>,
          msg |-> "none"]
    ELSE [ok |-> FALSE, rows |-> <<>>, filename |-> <<>>, msg |-> "load_error"]

\* the body of load_data, lines 43-54: the results it can return, one for
\* each file that line 47 can select
LoadDataBody(fs) ==
    IF DOMAIN fs = {}
    THEN {[ok |-> FALSE, rows |-> <<>>, filename |-> <<>>, msg |-> "no_csv"]}
    ELSE {LoadFile(fs, latest) : latest \in LatestFile(fs)}

\* load_data() under @st.cache_data(ttl=360), line 40: the outcomes of a call
load_data(fs, c, t) ==
    IF c.set /\ t - c.at < cache_ttl
    THEN {[value |-> c.value, cache |-> c, executed |-> FALSE]}
    ELSE {[value |-> v, cache |-> [set |-> TRUE, at |-> t, value |-> v],
           executed |-> TRUE] : v \in LoadDataBody(fs)}

\* lines 13-25 of one script pass at clock t: the session state it leaves,
\* whether it ends in st.rerun() and at which line, and the countdown of line 23
AutoRefresh(ss, t, button) ==
    LET ss1 == IF "last_refresh" \notin DOMAIN ss THEN [last_refresh |-> t] ELSE ss
        elapsed == t - ss1.last_refresh
    IN  IF elapsed >= refresh_interval
        THEN [ss |-> [last_refresh |-> t], rerun |-> TRUE, line |-> 20,
              countdown |-> refresh_interval - elapsed]
        ELSE [ss |-> ss1, rerun |-> button, line |-> 25,
              countdown |-> refresh_interval - elapsed]

NoView == [countdown |-> refresh_interval, reruns |-> 0, ok |-> FALSE, rows |-> <<>>,
           filename |-> <<>>, msg |-> "none", halted |-> FALSE, executed |-> FALSE]

InitPresenterVars ==
    /\ session_state = NoSession
    /\ cache = NoCache
    /\ ppc = "closed"
    /\ view = NoView
    /\ seen = NoFiles
    /\ lag = 0

\* seconds a script pass may take before the next one reads the clock
PassSeconds == {0, 1}

\* seconds the clock advances by between two steps of the processes
TickSteps == {1, 60, 299}

\* the directories a dashboard session may find: any set of matching files,
\* named by minute, each with its creation time and either a snapshot or
\* nothing readable in it; names and creation times need not agree in order
Table(n) == <<get_amazon_data(AllUrls[1], FullPage, n * SecondsPerMinute)>>
FileNames == 0..(MaxFiles - 1)
CTimes == 0..(MaxFiles - 1)
Directories ==
    UNION {{fs \in [N -> [ctime : CTimes, content : {<<>>} \cup {Table(n) : n \in N}]] :
                \A n \in N : fs[n].content \in {<<>>, Table(n)}} : N \in SUBSET FileNames}

----------------------------------------------------------------------------
(* Steps *)

\* streamlit_app.py lines 61-80 on one row
Normalise ==
    /\ rpc = "input"
    /\ \E tie_up \in BOOLEAN : row' = CleanRow(row, tie_up)
    /\ rpc' = "cleaned"
    /\ UNCHANGED <<now, collectorVars, presenterVars, extractVars>>

\* one call of get_amazon_data: it returns a record or raises, and the clock
\* has moved on by the sleep and the title wait
Scrape ==
    /\ xpc = "input"
    /\ \E d \in LoadDelays :
        /\ now' = now + Elapsed(xpage, d)
        /\ IF Raises(xpage)
           THEN xpc' = "raised" /\ data' = data
           ELSE xpc' = "scraped" /\ data' = get_amazon_data(xurl, xpage, now + d)
    /\ UNCHANGED <<xurl, xpage, collectorVars, presenterVars, rowVars>>

\* run_scraper_and_dashboard.py line 7, then amazon_price_tracker.py line 120;
\* n is the number of runs the schedule starts
StartRun(n) ==
    /\ cpc \in {"idle", "crashed"}
    /\ runs < n
    /\ cpc' = "loop"
    /\ i' = 1
    /\ results' = <<>>
    /\ runs' = runs + 1
    /\ cpage' = BlankPage
    /\ item' = NoItem
    /\ UNCHANGED <<now, PRODUCT_URLS, files, writing, wake, presenterVars, extractVars,
                   rowVars>>

\* lines 122 and 55-56: get_amazon_data is called and driver.get(url) loads
\* the page, then the sleep of line 56 begins; delays are the sleeps it may
\* take.  An exception of driver.get is outside the try and ends the process:
\* no driver.quit, no CSV.
GetPage(delays) ==
    /\ cpc = "loop"
    /\ i <= Len(PRODUCT_URLS)
    /\ \E p \in LoopPages, d \in delays :
        /\ cpage' = p
        /\ IF p.get # "ok"
           THEN cpc' = "crashed" /\ wake' = wake
           ELSE /\ now + d <= MaxTime
                /\ cpc' = "sleep"
                /\ wake' = now + d
    /\ UNCHANGED <<now, PRODUCT_URLS, i, results, runs, files, writing, item,
                   presenterVars, extractVars, rowVars>>

\* lines 58-72: the sleep is over, the record is set up with the clock as its
\* Timestamp, and the wait for the title begins: it lasts TitleWait seconds
\* when the title never appears
EndSleep ==
    /\ cpc = "sleep"
    /\ now >= wake
    /\ item' = InitialData(PRODUCT_URLS[i], now)
    /\ LET w == IF cpage.title.exc = "missing" THEN TitleWait ELSE 0
       IN  /\ now + w <= MaxTime
           /\ wake' = now + w
    /\ cpc' = "wait"
    /\ UNCHANGED <<now, PRODUCT_URLS, i, results, runs, files, writing, cpage,
                   presenterVars, extractVars, rowVars>>

\* lines 72-117 and 123-124: the wait is over; the fields are read, the record
\* is returned and appended, and the sleep of line 124 begins; delays are the
\* sleeps it may take.  An exception of the title lookup other than
\* TimeoutException ends the process.
Lookup(delays) ==
    /\ cpc = "wait"
    /\ now >= wake
    /\ IF Raises(cpage)
       THEN /\ cpc' = "crashed"
            /\ UNCHANGED <<results, wake, cpage, item>>
       ELSE \E d \in delays :
            /\ now + d <= MaxTime
            /\ results' = Collect(results, get_amazon_data(item.URL, cpage, item.Timestamp))
            /\ cpc' = "delay"
            /\ wake' = now + d
            /\ cpage' = BlankPage
            /\ item' = NoItem
    /\ UNCHANGED <<now, PRODUCT_URLS, i, runs, files, writing, presenterVars, extractVars,
                   rowVars>>

\* line 124 is over: the next iteration
NextDelay ==
    /\ cpc = "delay"
    /\ now >= wake
    /\ i' = i + 1
    /\ cpc' = "loop"
    /\ UNCHANGED <<now, PRODUCT_URLS, results, runs, files, writing, wake, cpage, item,
                   presenterVars, extractVars, rowVars>>

\* the collector sleeps or waits: the clock reaches the end of it
Await ==
    /\ cpc \in {"sleep", "wait", "delay"}
    /\ ppc # "rerun"
    /\ now < wake
    /\ now' = wake
    /\ UNCHANGED <<collectorVars, presenterVars, extractVars, rowVars>>

\* lines 126-130, after the loop: to_csv opens the file named by the clock,
\* which creates it or empties it
OpenCsv ==
    /\ cpc = "loop"
    /\ i > Len(PRODUCT_URLS)
    /\ writing' = FileName(now)
    /\ files' = WriteFile(files, FileName(now), <<>>, now)
    /\ cpc' = "writing"
    /\ UNCHANGED <<now, PRODUCT_URLS, i, results, runs, wake, cpage, item, presenterVars,
                   extractVars, rowVars>>

\* lines 130-131: to_csv writes the table and closes the file
CloseCsv ==
    /\ cpc = "writing"
    /\ files' = WriteFile(files, writing, results, now)
    /\ writing' = NoName
    /\ cpc' = "idle"
    /\ UNCHANGED <<now, PRODUCT_URLS, i, results, runs, wake, cpage, item, presenterVars,
                   extractVars, rowVars>>

\* one pass of the script at clock t, the n-th rerun since the user's last
\* event: it ends in st.rerun() (line 20 or 25), or goes on to load_data and
\* shows the page, halted by st.stop when there is no table
RunScript(button, t, n) ==
    LET a == AutoRefresh(session_state, t, button)
    IN  /\ session_state' = a.ss
        /\ IF a.rerun
           THEN /\ ppc' = "rerun"
                /\ view' = [view EXCEPT !.reruns = n + 1,
                                        !.countdown = IF a.line = 25 THEN a.countdown ELSE @]
                /\ UNCHANGED <<cache, seen>>
           ELSE \E r \in load_data(files, cache, t) :
                /\ ppc' = "shown"
                /\ cache' = r.cache
                /\ view' = [countdown |-> a.countdown, reruns |-> n, ok |-> r.value.ok,
                            rows |-> r.value.rows, filename |-> r.value.filename,
                            msg |-> r.value.msg, halted |-> ~r.value.ok,
                            executed |-> r.executed]
                /\ seen' = files

\* a browser opens the dashboard: the first script pass of the session
OpenSession ==
    /\ ppc = "closed"
    /\ RunScript(FALSE, now, 0)
    /\ UNCHANGED <<now, lag, collectorVars, extractVars, rowVars>>

\* the user presses "Refresh Now" (line 24)
ClickRefresh ==
    /\ ppc = "shown"
    /\ RunScript(TRUE, now, 0)
    /\ UNCHANGED <<now, lag, collectorVars, extractVars, rowVars>>

\* the user presses the download button (line 168), which reruns the script
ClickDownload ==
    /\ ppc = "shown"
    /\ ~view.halted
    /\ RunScript(FALSE, now, 0)
    /\ UNCHANGED <<now, lag, collectorVars, extractVars, rowVars>>

\* the pass that st.rerun() starts, the clock being read d seconds after the
\* pass before read it; h is the last second of the clock
Rerun(h) ==
    /\ ppc = "rerun"
    /\ \E d \in PassSeconds :
        /\ now + d <= h
        /\ lag + d <= MaxLag
        /\ now' = now + d
        /\ lag' = lag + d
        /\ RunScript(FALSE, now + d, view.reruns)
    /\ UNCHANGED <<collectorVars, extractVars, rowVars>>

\* the wall clock advances, up to second h, while no script pass is under way
\* and no file is being written, and not beyond the end of a sleep or wait of
\* the collector; steps of one second are counted
Tick(h) ==
    /\ ppc # "rerun"
    /\ cpc # "writing"
    /\ \E d \in TickSteps :
        /\ now + d <= h
        /\ cpc \in {"sleep", "wait", "delay"} => now + d <= wake
        /\ d = 1 => lag < MaxLag
        /\ now' = now + d
        /\ lag' = IF d = 1 THEN lag + 1 ELSE lag
    /\ UNCHANGED <<collectorVars, session_state, cache, ppc, view, seen, extractVars,
                   rowVars>>

----------------------------------------------------------------------------
(* Specifications *)

\* the collector, the working directory and the dashboard session
Init ==
    /\ now = 0
    /\ InitCollectorVars(MaxSessionUrls)
    /\ InitPresenterVars
    /\ ExtractOff
    /\ RowOff

Next ==
    \/ StartRun(MaxRuns)
    \/ GetPage(Shortest(LoadDelays, MaxSpread))
    \/ EndSleep
    \/ Lookup(Shortest(NextDelays, MaxSpread))
    \/ NextDelay
    \/ Await
    \/ OpenCsv
    \/ CloseCsv
    \/ OpenSession
    \/ ClickRefresh
    \/ ClickDownload
    \/ Rerun(MaxTime)
    \/ Tick(MaxTime)

Spec == Init /\ [][Next]_vars

\* one collector run from an empty directory
InitRun ==
    /\ now = 0
    /\ InitCollectorVars(MaxUrls)
    /\ InitPresenterVars
    /\ ExtractOff
    /\ RowOff

NextRun ==
    \/ StartRun(1)
    \/ GetPage(LoadDelays)
    \/ EndSleep
    \/ Lookup(NextDelays)
    \/ NextDelay
    \/ Await
    \/ OpenCsv
    \/ CloseCsv

SpecRun == InitRun /\ [][NextRun]_vars

\* the collector run again and again, without a dashboard session
InitCollector ==
    /\ now = 0
    /\ InitCollectorVars(MaxSessionUrls)
    /\ InitPresenterVars
    /\ ExtractOff
    /\ RowOff

NextCollector ==
    \/ StartRun(MaxRuns)
    \/ GetPage(LoadDelays)
    \/ EndSleep
    \/ Lookup(NextDelays)
    \/ NextDelay
    \/ Await
    \/ OpenCsv
    \/ CloseCsv
    \/ Tick(MaxTime)

SpecCollector == InitCollector /\ [][NextCollector]_vars

\* a dashboard session over any directory, beside a collector that is idle
InitPresenter ==
    /\ now = MaxFiles - 1
    /\ PRODUCT_URLS = <<AllUrls[1]>>
    /\ cpc = "idle"
    /\ i = 1
    /\ results = <<>>
    /\ runs = 0
    /\ files \in Directories
    /\ writing = NoName
    /\ wake = 0
    /\ cpage = BlankPage
    /\ item = NoItem
    /\ InitPresenterVars
    /\ ExtractOff
    /\ RowOff

NextPresenter ==
    \/ OpenSession
    \/ ClickRefresh
    \/ ClickDownload
    \/ Rerun(Horizon)
    \/ Tick(Horizon)

SpecPresenter == InitPresenter /\ [][NextPresenter]_vars

\* get_amazon_data on every page outcome
InitExtract ==
    /\ now = 0
    /\ CollectorOff
    /\ InitPresenterVars
    /\ InitExtractVars
    /\ RowOff

SpecExtract == InitExtract /\ [][Scrape]_vars

\* clean_price and the discount on every row
InitRow ==
    /\ now = 0
    /\ CollectorOff
    /\ InitPresenterVars
    /\ ExtractOff
    /\ InitRowVars

SpecRow == InitRow /\ [][Normalise]_vars

----------------------------------------------------------------------------
(* Properties *)

\* C1: on every per-page outcome of the claim (all fields found, title wait
\* timed out, any of the other elements missing or throwing) the loop appends
\* the page's record and goes on: a run ends before the write only on an
\* outcome outside those (driver.get raising, the title lookup raising another
\* exception than the timeout); inside the loop the records so far are those
\* of the URLs processed; and every file written holds exactly one record per
\* configured URL, in configuration order, record k's URL = PRODUCT_URLS[k].
C1_OneRecordPerUrl ==
    /\ cpc = "crashed" => Raises(cpage)
    /\ cpc \in {"loop", "sleep", "wait", "delay", "writing"} =>
        /\ i <= Len(PRODUCT_URLS) + 1
        /\ Len(results) = (IF cpc = "delay" THEN i ELSE i - 1)
        /\ \A k \in 1..Len(results) : results[k].URL = PRODUCT_URLS[k]
    /\ \A f \in DOMAIN files :
        f # writing =>
            /\ Len(files[f].content) = Len(PRODUCT_URLS)
            /\ \A k \in 1..Len(PRODUCT_URLS) : files[f].content[k].URL = PRODUCT_URLS[k]

\* a run over two URLs wrote its file: the first page was blocked, on the
\* second the MRP lookup threw and other elements were missing
C1_Witness ==
    /\ cpc = "idle"
    /\ runs = 1
    /\ Len(PRODUCT_URLS) = 2
    /\ \E f \in DOMAIN files :
        /\ Len(files[f].content) = 2
        /\ files[f].content[1].Title = Blocked
        /\ files[f].content[2] =
               get_amazon_data(PRODUCT_URLS[2], PartPage, files[f].content[2].Timestamp)

\* the page load timed out: driver.get ran into the page-load timeout, or the
\* title did not appear within the wait
PageLoadTimedOut(page) ==
    page.get = "TimeoutException" \/ (page.get = "ok" /\ page.title.exc = "missing")

\* C2 (as claimed): when the page load times out a record is returned with the
\* "Blocked or Timeout" title, the URL of the call and every other field at its
\* default ("N/A"; for Availability "N/A" or "In Stock"); when the title is
\* found, each of Price, MRP, Rating and Reviews that cannot be read stays
\* "N/A", an unreadable Availability is "In Stock", and every field that can be
\* read holds its own element's value whatever happened to the others.
C2_FieldsIndependent ==
    /\ (xpc \in {"scraped", "raised"} /\ PageLoadTimedOut(xpage)) =>
        /\ xpc = "scraped"
        /\ data.URL = xurl
        /\ data.Title = Blocked
        /\ data.Price = NA /\ data.MRP = NA /\ data.Discount = NA
        /\ data.Rating = NA /\ data.Reviews = NA
        /\ data.Availability \in {NA, InStock}
    /\ (xpc = "scraped" /\ xpage.title.found) =>
        /\ data.URL = xurl
        /\ data.Title = Strip(xpage.title.text)
        /\ data.Discount = NA
        /\ (~(xpage.whole.found /\ xpage.fraction.found) /\ ~xpage.apex.found)
               => data.Price = NA
        /\ (xpage.whole.found /\ xpage.fraction.found)
               => data.Price = <<"₹">> \o Remove(xpage.whole.text, ".")
                                      \o xpage.fraction.text
        /\ (~(xpage.whole.found /\ xpage.fraction.found) /\ xpage.apex.found)
               => data.Price = xpage.apex.text
        /\ data.MRP = (IF xpage.mrp.found THEN xpage.mrp.text ELSE NA)
        /\ data.Rating = (IF xpage.rating.found THEN xpage.rating.text ELSE NA)
        /\ data.Reviews = (IF xpage.reviews.found THEN xpage.reviews.text ELSE NA)
        /\ data.Availability =
               (IF xpage.avail.found THEN Strip(xpage.avail.text) ELSE InStock)

\* C3: clean_price returns None or a non-negative number and never raises; it
\* returns None (never zero) for NaN, for each sentinel text and for any text
\* with no digit and no decimal point in it.
C3_CleanPriceTotal ==
    rpc = "cleaned" =>
        /\ row.Current_Price.kind \in {"None", "num"}
        /\ IsNum(row.Current_Price) => row.Current_Price.mant >= 0
        /\ (\/ row.Price.kind = "NaN"
            \/ /\ row.Price.kind = "str"
               /\ \/ row.Price.s \in Sentinels
                  \/ \A k \in 1..Len(row.Price.s) : row.Price.s[k] \notin Digits \cup {"."})
               => row.Current_Price = None

\* a non-empty text without digits was cleaned to None
C3_Witness ==
    /\ rpc = "cleaned"
    /\ row.Price = Str(OutOfStock)
    /\ row.Current_Price = None

\* d is (mp - cp) / mp * 100 to the nearest tenth of a percent
C4_IsRoundedDiscount(d, cp, mp) ==
    LET M == Scaled(mp, cp)
        C == Scaled(cp, mp)
        p == LongDiv(M - C, M, 3)
    IN  /\ IsNum(d)
        /\ d.exp = 1
        /\ \/ d.mant = p.q /\ 2 * p.r <= M
           \/ d.mant = p.q + 1 /\ 2 * p.r >= M

\* C4 (as amended): Discount_% is (MRP_Price - Current_Price) / MRP_Price * 100
\* rounded to one decimal place whenever both prices are present, MRP_Price > 0
\* and Current_Price > 0 (values above MRP_Price included), and is None in
\* every other case, a Current_Price of 0 among them.
C4_DiscountWhenBothPositive ==
    rpc = "cleaned" =>
        IF /\ IsNum(row.Current_Price) /\ IsNum(row.MRP_Price)
           /\ row.MRP_Price.mant > 0 /\ row.Current_Price.mant > 0
        THEN C4_IsRoundedDiscount(row.Discount, row.Current_Price, row.MRP_Price)
        ELSE row.Discount = None

\* C4 (as claimed): the discount is computed for every present Current_Price,
\* 0 included, whenever MRP_Price is present and positive.
C4_DiscountWheneverMrpPositive ==
    rpc = "cleaned" =>
        IF IsNum(row.Current_Price) /\ IsNum(row.MRP_Price) /\ row.MRP_Price.mant > 0
        THEN C4_IsRoundedDiscount(row.Discount, row.Current_Price, row.MRP_Price)
        ELSE row.Discount = None

\* a row priced above its list price got a negative discount
C4_Witness ==
    /\ rpc = "cleaned"
    /\ IsNum(row.Current_Price) /\ IsNum(row.MRP_Price)
    /\ NumLt(row.MRP_Price, row.Current_Price)
    /\ IsNum(row.Discount) /\ row.Discount.mant < 0

IsLatest(fs, f) == f \in DOMAIN fs /\ \A g \in DOMAIN fs : fs[g].ctime <= fs[f].ctime

\* C5 (as amended): when the body of load_data runs, it returns (None, None)
\* with the "No CSV files found" message exactly when the directory holds no
\* matching file; otherwise it selects a file of greatest creation time,
\* however the filenames compare, and returns its table and name, or
\* (None, None) with the "Error loading CSV" message when that file cannot be
\* read; and the script stops rendering exactly when no table was returned.
C5_LoadDataSelectsLatest ==
    ppc = "shown" =>
        /\ view.halted <=> ~view.ok
        /\ view.executed =>
            /\ (~view.ok /\ view.msg = "no_csv") <=> (DOMAIN seen = {})
            /\ view.ok =>
                /\ Len(view.filename) = 1
                /\ IsLatest(seen, view.filename[1])
                /\ view.rows = seen[view.filename[1]].content
            /\ (~view.ok /\ DOMAIN seen # {}) =>
                /\ view.msg = "load_error"
                /\ \E f \in DOMAIN seen : IsLatest(seen, f) /\ seen[f].content = <<>>

\* C5 (as claimed): load_data returns (None, None) exactly when no matching
\* file exists, and otherwise returns the table of the file of greatest
\* creation time; rendering stops exactly when no table was returned.
C5_NoneExactlyWhenNoFile ==
    ppc = "shown" =>
        /\ view.halted <=> ~view.ok
        /\ view.executed =>
            /\ ~view.ok <=> (DOMAIN seen = {})
            /\ view.ok =>
                /\ Len(view.filename) = 1
                /\ IsLatest(seen, view.filename[1])
                /\ view.rows = seen[view.filename[1]].content

\* load_data ran over two files of which the one first by name was created
\* last, and returned that one's table
C5_Witness ==
    /\ ppc = "shown"
    /\ view.executed
    /\ view.ok
    /\ \E f, g \in DOMAIN seen :
        /\ f < g
        /\ seen[g].ctime < seen[f].ctime
        /\ view.filename = <<f>>
        /\ view.rows = seen[f].content

\* C6 (as claimed): every script run shows the table of the latest-created
\* matching file among those existing when the run starts, and never shows the
\* "no data" state while a matching file exists.
C6_EveryCycleShowsLatest ==
    ppc = "shown" =>
        /\ DOMAIN seen # {} => view.msg # "no_csv"
        /\ \A f \in DOMAIN seen :
            (IsLatest(seen, f) /\ seen[f].content # <<>>) =>
                /\ view.ok
                /\ view.filename = <<f>>
                /\ view.rows = seen[f].content

\* C7 (as claimed): the content of a file a run has written never changes.
C7_FilesNeverChange ==
    [][\A f \in DOMAIN files :
            f # writing =>
                /\ f \in DOMAIN files'
                /\ files'[f].content = files[f].content]_vars

\* C8 (as claimed): the page re-polls every 300 seconds without the user, so a
\* displayed page is never older than the refresh interval, and the countdown
\* shown is within 1..300.
C8_RefreshWithinInterval ==
    ppc = "shown" =>
        /\ now - session_state.last_refresh <= refresh_interval
        /\ view.countdown \in 1..refresh_interval

\* the countdown part of C8 alone
CountdownInRange == ppc = "shown" => view.countdown \in 1..refresh_interval

\* C9 (as claimed): with the title found, Price is the result of the first
\* strategy that yields a non-empty text, and "N/A" when none does.
C9_FirstNonEmptyStrategy ==
    (xpc = "scraped" /\ xpage.title.found) =>
        LET s1 == <<"₹">> \o Remove(xpage.whole.text, ".") \o xpage.fraction.text
        IN  data.Price =
                (IF xpage.whole.found /\ xpage.fraction.found /\ s1 # <<>> THEN s1
                 ELSE IF xpage.apex.found /\ xpage.apex.text # <<>> THEN xpage.apex.text
                 ELSE NA)

\* C10 (as claimed): when the whole part W and the two-digit fraction F are
\* both read, clean_price of the written Price is W + F/100.
C10_PriceRoundTrip ==
    (xpc = "scraped" /\ xpage.title.found /\ xpage.whole.found /\ xpage.fraction.found) =>
        LET W == DigitsToInt(Keep(xpage.whole.text, AsciiDigits))
            F == DigitsToInt(xpage.fraction.text)
            v == clean_price(Str(data.Price))
        IN  IsNum(v) /\ NumEq(v, Num(100 * W + F, 2))

====
